---- MODULE Spec2Model ----
(***************************************************************************)
(* Model of the Hive player tracker (src/hive_tracker.py): the response    *)
(* parser, PlayerTracker.update run by the polling thread and by worker    *)
(* threads, the queued Qt signals, and the player list items with their    *)
(* colour / last-activity aging.                                           *)
(***************************************************************************)
EXTENDS Integers, Sequences, FiniteSets, Bags, TLC

(* ------------------------------------------------------------------ *)
(* Bounds of the model                                                 *)
(* ------------------------------------------------------------------ *)

\* environment steps (add, remove, manual update, upstream change, clock)
MaxEnvSteps == 3
\* environment steps of the sequential and of the aging specifications
MaxSeqSteps == 3
MaxAgeSteps == 3
\* worker threads alive at the same time
MaxWorkers == 2
\* signals waiting in the GUI thread's event queue
MaxQueue == 2
\* single-shot sort timers pending at the same time
MaxSortTimers == 1
\* the largest counter the stats API reports
MaxCount == 2
\* environment steps of the specification of the add boundary
MaxAddSteps == 3
\* players tracked in the specification of the polling cycle
MaxPlayers == 3
\* players tracked in the specification of the cycle under fair scheduling
MaxFairPlayers == 2
\* players tracked, and user actions, in the specification of the shutdown
MaxStopPlayers == 2
MaxStopSteps == 2


(* ------------------------------------------------------------------ *)
(* Text: a str is the sequence of its characters                       *)
(* ------------------------------------------------------------------ *)

\* str.lower() of one character, for the letters the model's texts use
LowerOf ==
    ("A" :> "a") @@ ("B" :> "b") @@ ("H" :> "h") @@ ("N" :> "n")
    @@ ("L" :> "l") @@ ("E" :> "e") @@ ("X" :> "x") @@ ("R" :> "r")
    @@ ("I" :> "i") @@ ("O" :> "o")

\* str.lower()
lower(text) ==
    [i \in 1..Len(text) |->
        IF text[i] \in DOMAIN LowerOf THEN LowerOf[text[i]] ELSE text[i]]

Whitespace == {" "}

\* str.lstrip(), str.rstrip(), str.strip()
RECURSIVE lstrip(_)
lstrip(text) ==
    IF text # <<>> /\ Head(text) \in Whitespace THEN lstrip(Tail(text)) ELSE text

RECURSIVE rstrip(_)
rstrip(text) ==
    IF text # <<>> /\ text[Len(text)] \in Whitespace
    THEN rstrip(SubSeq(text, 1, Len(text) - 1))
    ELSE text

strip(text) == rstrip(lstrip(text))

Alex == <<"A", "l", "e", "x">>
Bo == <<"B", "o">>

Cy == <<"C", "y">>
Di == <<"D", "i">>

Usernames == {Alex, Bo}

\* the modelled part of HiveTrackerApp.protected_blacklist (one entry with
\* capitals, one without)
protected_blacklist == << <<"H", "0", "n", "r", "i">>, <<"c", "b", "6", "h">> >>

(* ------------------------------------------------------------------ *)
(* Program constants                                                   *)
(* ------------------------------------------------------------------ *)

\* the modelled part of HiveAPI.GAMEMODE_MAPPING, in its enumeration order
\* (first and last entry of the table)
GamemodeKeys == <<"sky", "bed">>
GAMEMODE_MAPPING == [sky |-> "SkyWars", bed |-> "Bedwars"]

PlayedFields == <<"played", "games_played", "games", "total_games", "matches">>
VictoryFields == <<"victories", "wins", "victories_count", "win_count", "total_wins">>

GREY == "#2a2a2a"
GREEN == "#00ff00"
RED == "#ff0000"

COLOR_TIMEOUT == 30
ACTIVITY_TIMEOUT == 1000

API_ERROR == "API Error"

\* rpm_spinbox.setValue(120)
DefaultRpm == 120

\* time.sleep(1) of the polling loop with nothing tracked, in milliseconds
IDLE_SLEEP == 1000

(* ------------------------------------------------------------------ *)
(* JSON values: [k |-> kind, v |-> payload]                            *)
(* ------------------------------------------------------------------ *)

JNum(n) == [k |-> "num", v |-> n]
JBool(b) == [k |-> "bool", v |-> IF b THEN 1 ELSE 0]
JNull == [k |-> "null", v |-> 0]
JStr(s) == [k |-> "str", v |-> s]
JList(s) == [k |-> "list", v |-> s]
JDict(f) == [k |-> "dict", v |-> f]

\* a JSON object together with the order its keys have in the body
JObject(keys, f) == [k |-> "dict", v |-> f, keys |-> keys]

\* decimal strings the model uses, for int("...")
NumStr == ("0" :> 0) @@ ("1" :> 1) @@ ("2" :> 2) @@ ("3" :> 3)

\* Python truthiness of a JSON value
Truthy(j) ==
    CASE j.k = "num" -> j.v # 0
      [] j.k = "bool" -> j.v = 1
      [] j.k = "null" -> FALSE
      [] j.k = "str" -> j.v # ""
      [] j.k = "list" -> j.v # <<>>
      [] j.k = "dict" -> DOMAIN j.v # {}

\* int(x or 0): [ok |-> FALSE] stands for ValueError / TypeError
IntOrZero(j) ==
    IF ~Truthy(j) THEN [ok |-> TRUE, n |-> 0]
    ELSE CASE j.k = "num" -> [ok |-> TRUE, n |-> j.v]
           [] j.k = "bool" -> [ok |-> TRUE, n |-> 1]
           [] j.k = "str" -> IF j.v \in DOMAIN NumStr
                                THEN [ok |-> TRUE, n |-> NumStr[j.v]]
                                ELSE [ok |-> FALSE, n |-> 0]
           [] OTHER -> [ok |-> FALSE, n |-> 0]

\* x > 0: [ok |-> FALSE] stands for TypeError (None, str, list, dict)
GreaterZero(j) ==
    CASE j.k = "num" -> [ok |-> TRUE, b |-> j.v > 0]
      [] j.k = "bool" -> [ok |-> TRUE, b |-> j.v = 1]
      [] OTHER -> [ok |-> FALSE, b |-> FALSE]

\* d.get(f1, d.get(f2, d.get(f3, 0))) for a dict payload d
GetChain(d, fields) ==
    IF fields[1] \in DOMAIN d THEN d[fields[1]]
    ELSE IF fields[2] \in DOMAIN d THEN d[fields[2]]
    ELSE IF fields[3] \in DOMAIN d THEN d[fields[3]]
    ELSE JNum(0)

GameData(games_played, victories) ==
    [games_played |-> games_played, victories |-> victories]

ZeroStats == ("played" :> JNum(0)) @@ ("victories" :> JNum(0))

(* ------------------------------------------------------------------ *)
(* HiveAPI.parse_game_data                                             *)
(* ------------------------------------------------------------------ *)

\* the loop over a list-shaped mode_data: the first dict item whose
\* played-like field is > 0; ok = FALSE when the comparison raises
RECURSIVE BestStats(_, _)
BestStats(items, i) ==
    IF i > Len(items) THEN [ok |-> TRUE, stats |-> ZeroStats]
    ELSE IF items[i].k # "dict" THEN BestStats(items, i + 1)
    ELSE LET possible_played ==
                 GetChain(items[i].v, <<"played", "games_played", "games">>)
             possible_victories ==
                 GetChain(items[i].v, <<"victories", "wins", "victories_count">>)
             gz == GreaterZero(possible_played)
         IN  IF ~gz.ok THEN [ok |-> FALSE, stats |-> ZeroStats]
             ELSE IF gz.b
                  THEN [ok |-> TRUE,
                        stats |-> ("played" :> possible_played)
                                  @@ ("victories" :> possible_victories)]
                  ELSE BestStats(items, i + 1)

\* a variant of the extraction loop in which a null or zero value does not
\* end the search: the loop goes on to the next name
RECURSIVE FirstFieldSkipsNull(_, _, _)
FirstFieldSkipsNull(mode_stats, fields, i) ==
    IF i > Len(fields) THEN [ok |-> TRUE, n |-> 0]
    ELSE IF fields[i] \in DOMAIN mode_stats /\ Truthy(mode_stats[fields[i]])
         THEN IntOrZero(mode_stats[fields[i]])
         ELSE FirstFieldSkipsNull(mode_stats, fields, i + 1)

\* for field in fields: if field in mode_stats: int(mode_stats[field] or 0); break
RECURSIVE FirstField(_, _, _)
FirstField(mode_stats, fields, i) ==
    IF i > Len(fields) THEN [ok |-> TRUE, n |-> 0]
    ELSE IF fields[i] \in DOMAIN mode_stats THEN IntOrZero(mode_stats[fields[i]])
    ELSE FirstField(mode_stats, fields, i + 1)

\* the two extraction loops and the GameData built from them; an exception
\* in either gives GameData(0, 0)
ExtractStats(mode_stats) ==
    LET gp == FirstField(mode_stats, PlayedFields, 1)
        vi == FirstField(mode_stats, VictoryFields, 1)
    IN  IF gp.ok /\ vi.ok THEN GameData(gp.n, vi.n) ELSE GameData(0, 0)

\* one gamemode's value: present = FALSE is the "continue" branch
ParseMode(mode_data) ==
    CASE mode_data.k = "list" ->
           IF mode_data.v = <<>>
           THEN [present |-> TRUE, data |-> ExtractStats(ZeroStats)]
           ELSE LET best == BestStats(mode_data.v, 1)
                IN  IF best.ok
                    THEN [present |-> TRUE, data |-> ExtractStats(best.stats)]
                    ELSE [present |-> TRUE, data |-> GameData(0, 0)]
      [] mode_data.k = "dict" ->
           [present |-> TRUE, data |-> ExtractStats(mode_data.v)]
      [] mode_data.k \in {"num", "bool"} ->
           [present |-> TRUE,
            data |-> ExtractStats(("played" :> JNum(mode_data.v))
                                  @@ ("victories" :> JNum(0)))]
      [] OTHER -> [present |-> FALSE, data |-> GameData(0, 0)]

\* "gamemode_key in api_data" followed by api_data[gamemode_key], both
\* outside the try block: "raise" when either raises (TypeError)
KeyLookup(api_data, key) ==
    CASE api_data.k = "dict" ->
           IF key \in DOMAIN api_data.v THEN "found" ELSE "absent"
      [] api_data.k = "list" ->
           IF \E i \in 1..Len(api_data.v) : api_data.v[i] = JStr(key)
           THEN "raise" ELSE "absent"
      [] api_data.k = "str" ->
           IF api_data.v = key THEN "raise" ELSE "absent"
      [] OTHER -> "raise"

\* the loop over the keys (line 108): data is the dict game_data, order the
\* order its keys were inserted in, which is the order .items() gives
RECURSIVE ParseFrom(_, _, _)
ParseFrom(api_data, keys, i) ==
    IF i > Len(keys) THEN [raised |-> FALSE, data |-> <<>>, order |-> <<>>]
    ELSE LET key == keys[i]
             look == KeyLookup(api_data, key)
         IN  IF look = "raise"
             THEN [raised |-> TRUE, data |-> <<>>, order |-> <<>>]
             ELSE LET rest == ParseFrom(api_data, keys, i + 1)
                  IN  IF look = "absent" THEN rest
                      ELSE LET m == ParseMode(api_data.v[key])
                           IN  IF m.present
                               THEN [raised |-> rest.raised,
                                     data |-> (key :> m.data) @@ rest.data,
                                     order |-> <<key>> \o rest.order]
                               ELSE rest

\* a wrong parse_game_data: the loop goes over the gamemodes in the order
\* the response body has them
parse_game_data_in_body_order(api_data) ==
    ParseFrom(api_data,
              IF "keys" \in DOMAIN api_data
              THEN SelectSeq(api_data.keys, LAMBDA g : g \in DOMAIN GAMEMODE_MAPPING)
              ELSE GamemodeKeys,
              1)

\* the snapshot: a function from the gamemode keys present to GameData, and
\* the order of its keys
parse_game_data(api_data) == ParseFrom(api_data, GamemodeKeys, 1)

(* ------------------------------------------------------------------ *)
(* State                                                               *)
(* ------------------------------------------------------------------ *)

VARIABLES
    trackers,      \* HiveTrackerApp.trackers: the dict, as the sequence of its
                   \* entries [username, tracker] in insertion order
    obj,           \* the PlayerTracker objects alive, by object identity
    player_list,   \* the PlayerListItems of the list widget, top to bottom
    workers,       \* bag of the running threading.Thread(target=tracker.update)
    poller,        \* the polling thread: its position in polling_loop
    sigq,          \* signals emitted and not yet delivered to the GUI thread
    sortTimers,    \* pending QTimer.singleShot(100, sort_player_list)
    is_running,    \* HiveTrackerApp.is_running
    upstream,      \* what the stats API holds for each username
    now,           \* the wall clock, in seconds
    blacklist,     \* HiveTrackerApp.blacklist: the user-editable list
    message_box,   \* the QMessageBox add_user showed when it last ran
    rpm,           \* rpm_spinbox.value()
    parse_input,   \* the api_data a direct call of parse_game_data is given
    parse_result,  \* what that call gave: None until it is made
    budget         \* environment steps left

vars == <<trackers, obj, player_list, workers, poller, sigq, sortTimers,
          is_running, upstream, now, blacklist, message_box, rpm,
          parse_input, parse_result, budget>>

\* what only the GUI's dialogs and controls change
settings == <<blacklist, message_box, rpm>>

\* what only a direct call of HiveAPI.parse_game_data changes
parsing == <<parse_input, parse_result>>

None == <<>>
Some(x) == <<x>>

\* a running PlayerTracker.update: tr the tracker object, pc the position,
\* cur the parsed current_data, order the order of its items, i the
\* position of the for loop over it.
\* History kept for the properties: base is previous_data as it was when the
\* fetch returned, prevPoll the snapshot of the preceding successful fetch
\* (None for the first one), out the signals this update has emitted,
\* bodyKeys the order of the keys in the response body when it is known.
NewUpdate(tid) ==
    [tr |-> tid, pc |-> "fetch", cur |-> <<>>, order |-> <<>>, i |-> 0,
     base |-> <<>>, prevPoll |-> None, out |-> <<>>, bodyKeys |-> <<>>]

NoUpdate ==
    [tr |-> 0, pc |-> "none", cur |-> <<>>, order |-> <<>>, i |-> 0,
     base |-> <<>>, prevPoll |-> None, out |-> <<>>, bodyKeys |-> <<>>]

\* PlayerTracker.__init__ (lastFetched is history: the snapshot parsed from
\* the latest successful fetch)
NewTracker(username) ==
    [username |-> username, previous_data |-> <<>>, last_activity |-> None,
     error_message |-> "", lastFetched |-> None]

\* PlayerListItem.__init__
NewItem(username, tid) ==
    [username |-> username, tracker |-> tid, error_message |-> "",
     last_activity_time |-> None, last_gamemode |-> "", last_result |-> "",
     current_background_color |-> GREY, color_change_time |-> None]

ActivitySignal(username, gamemode, result, timestamp) ==
    [kind |-> "activity", username |-> username, gamemode |-> gamemode,
     result |-> result, timestamp |-> timestamp, message |-> ""]

ErrorSignal(username, message) ==
    [kind |-> "error", username |-> username, gamemode |-> "",
     result |-> "", timestamp |-> 0, message |-> message]

TrackedNames == {trackers[n].username : n \in 1..Len(trackers)}

TrackerOf(username) ==
    LET n == CHOOSE n \in 1..Len(trackers) : trackers[n].username = username
    IN  trackers[n].tracker

\* the update the polling thread is inside of, and those of the worker threads
RunningUpdates ==
    BagToSet(workers) \cup (IF poller.pc = "upd" THEN {poller.upd} ELSE {})

\* the tracker objects something still refers to, in the next state
LiveNext ==
    {trackers'[n].tracker : n \in 1..Len(trackers')}
    \cup {t.tr : t \in BagToSet(workers')}
    \cup {poller'.todo[n] : n \in 1..Len(poller'.todo)}

\* the objects of o that stay alive (the others are garbage)
Collect(o) == [tid \in (DOMAIN o \cap LiveNext) |-> o[tid]]

FreshId == CHOOSE tid \in 1..(Cardinality(DOMAIN obj) + 1) : tid \notin DOMAIN obj

NoApi == <<>>

\* the polling thread about to enter polling_loop.  todo: the trackers of
\* list(self.trackers.values()) the for loop has not finished with; upd: the
\* update it is inside of; interval: the local of that name, in
\* milliseconds; nap: the length of the time.sleep it is inside of, in
\* milliseconds.  History of the current cycle: visited, the usernames whose
\* update was called; sleeps, the rate-limit sleeps begun
PollerAtTop ==
    [pc |-> "top", todo |-> <<>>, upd |-> NoUpdate,
     interval |-> 0, nap |-> 0, visited |-> <<>>, sleeps |-> 0]

Init ==
    /\ trackers = <<>>
    /\ obj = <<>>
    /\ player_list = <<>>
    /\ workers = EmptyBag
    /\ poller = PollerAtTop
    /\ sigq = <<>>
    /\ sortTimers = 0
    /\ is_running = TRUE
    /\ upstream = [u \in Usernames |-> NoApi]
    /\ now = 0
    /\ blacklist = <<>>
    /\ message_box = None
    /\ rpm = DefaultRpm
    /\ parse_input = JNull
    /\ parse_result = None
    /\ budget = MaxEnvSteps

(* ------------------------------------------------------------------ *)
(* The stats API                                                       *)
(* ------------------------------------------------------------------ *)

\* bodies that are valid JSON and no object: a number, a boolean, an array
\* naming a gamemode, a string that is a gamemode's key
OddBodies ==
    {JNum(0), JBool(TRUE), JList(<<JStr("bed")>>), JStr("bed"), JList(<<>>)}

\* the JSON body the API returns for the counters it holds: one record per
\* gamemode the player has stats in
ApiResponse(username) ==
    JDict([g \in DOMAIN upstream[username] |->
              JDict(("played" :> JNum(upstream[username][g].played))
                    @@ ("victories" :> JNum(upstream[username][g].victories)))])

(* ------------------------------------------------------------------ *)
(* PlayerTracker.update, one step at a time.  Each step gives the      *)
(* tracker objects after it (o), the signals it emits (emit) and the   *)
(* update after it (t, with pc = "done" when update has returned).     *)
(* ------------------------------------------------------------------ *)

Finished(t) == [t EXCEPT !.pc = "done"]

\* a wrong FetchFailed: the failure also drops the baseline
FetchFailedDropsBaseline(t) ==
    [o |-> [obj EXCEPT ![t.tr].error_message = API_ERROR,
                       ![t.tr].previous_data = <<>>],
     emit |-> <<ErrorSignal(obj[t.tr].username, API_ERROR)>>,
     t |-> [t EXCEPT !.pc = "done"]]

\* fetch_player_data returned None: lines 175-178
FetchFailed(t) ==
    [o |-> [obj EXCEPT ![t.tr].error_message = API_ERROR],
     emit |-> <<ErrorSignal(obj[t.tr].username, API_ERROR)>>,
     t |-> Finished(t)]

\* fetch_player_data returned the response: lines 180-181
FetchReturnedWith(t, api_data) ==
    LET parsed == parse_game_data(api_data)
    IN  IF parsed.raised
        THEN [o |-> [obj EXCEPT ![t.tr].error_message = ""],
              emit |-> <<>>,
              t |-> Finished(t)]
        ELSE [o |-> [obj EXCEPT ![t.tr].error_message = "",
                                ![t.tr].lastFetched = Some(parsed.data)],
              emit |-> <<>>,
              t |-> [t EXCEPT !.pc = "diff", !.cur = parsed.data,
                              !.order = parsed.order, !.i = 1,
                              !.bodyKeys = IF "keys" \in DOMAIN api_data
                                           THEN api_data.keys ELSE <<>>,
                              !.base = obj[t.tr].previous_data,
                              !.prevPoll = obj[t.tr].lastFetched]]

FetchReturned(t) == FetchReturnedWith(t, ApiResponse(obj[t.tr].username))

\* a wrong Classify: an equal victory count is a Win
ClassifyNotLess(current_game_data, previous_game_data) ==
    IF current_game_data.victories - previous_game_data.victories >= 0
    THEN "Win" ELSE "Loss"

\* lines 190-195
Classify(current_game_data, previous_game_data) ==
    IF current_game_data.victories - previous_game_data.victories > 0
    THEN "Win" ELSE "Loss"

\* a wrong DiffStep: a gamemode the baseline lacks counts as zero games
DiffStepFromZero(t) ==
    LET gamemode_key == t.order[t.i]
        current_game_data == t.cur[gamemode_key]
        previous_game_data ==
            IF gamemode_key \in DOMAIN obj[t.tr].previous_data
            THEN obj[t.tr].previous_data[gamemode_key]
            ELSE GameData(0, 0)
    IN  IF current_game_data.games_played > previous_game_data.games_played
        THEN LET result == IF current_game_data.victories
                                  - previous_game_data.victories > 0
                           THEN "Win" ELSE "Loss"
                 gamemode_name == GAMEMODE_MAPPING[gamemode_key]
             IN  [o |-> [obj EXCEPT ![t.tr].last_activity =
                             Some([gamemode |-> gamemode_name,
                                   result |-> result, timestamp |-> now])],
                  emit |-> <<ActivitySignal(obj[t.tr].username, gamemode_name,
                                            result, now)>>,
                  t |-> [t EXCEPT !.i = t.i + 1]]
        ELSE [o |-> obj, emit |-> <<>>, t |-> [t EXCEPT !.i = t.i + 1]]

\* a wrong DiffStep: a gamemode with as many games as the baseline counts
\* as activity
DiffStepOnEqual(t) ==
    LET gamemode_key == t.order[t.i]
        current_game_data == t.cur[gamemode_key]
        previous_data == obj[t.tr].previous_data
    IN  IF /\ gamemode_key \in DOMAIN previous_data
           /\ current_game_data.games_played
                  >= previous_data[gamemode_key].games_played
        THEN LET result == Classify(current_game_data, previous_data[gamemode_key])
                 gamemode_name == GAMEMODE_MAPPING[gamemode_key]
             IN  [o |-> [obj EXCEPT ![t.tr].last_activity =
                             Some([gamemode |-> gamemode_name,
                                   result |-> result, timestamp |-> now])],
                  emit |-> <<ActivitySignal(obj[t.tr].username, gamemode_name,
                                            result, now)>>,
                  t |-> [t EXCEPT !.i = t.i + 1]]
        ELSE [o |-> obj, emit |-> <<>>, t |-> [t EXCEPT !.i = t.i + 1]]

\* one iteration of the for loop over current_data.items(): lines 184-201
DiffStep(t) ==
    LET gamemode_key == t.order[t.i]
        current_game_data == t.cur[gamemode_key]
        previous_data == obj[t.tr].previous_data
    IN  IF /\ gamemode_key \in DOMAIN previous_data
           /\ current_game_data.games_played
                  > previous_data[gamemode_key].games_played
        THEN LET result == Classify(current_game_data, previous_data[gamemode_key])
                 gamemode_name == GAMEMODE_MAPPING[gamemode_key]
             IN  [o |-> [obj EXCEPT ![t.tr].last_activity =
                             Some([gamemode |-> gamemode_name,
                                   result |-> result, timestamp |-> now])],
                  emit |-> <<ActivitySignal(obj[t.tr].username, gamemode_name,
                                            result, now)>>,
                  t |-> [t EXCEPT !.i = t.i + 1]]
        ELSE [o |-> obj, emit |-> <<>>, t |-> [t EXCEPT !.i = t.i + 1]]

\* a wrong Commit: the snapshot is kept only when the update found activity
CommitOnActivity(t) ==
    [o |-> IF t.out # <<>>
           THEN [obj EXCEPT ![t.tr].previous_data = t.cur]
           ELSE obj,
     emit |-> <<>>,
     t |-> [t EXCEPT !.pc = "done"]]

\* self.previous_data = current_data: line 203
Commit(t) ==
    [o |-> [obj EXCEPT ![t.tr].previous_data = t.cur],
     emit |-> <<>>,
     t |-> Finished(t)]

InLoop(t) == t.pc = "diff" /\ t.i <= Len(t.order)
AtCommit(t) == t.pc = "diff" /\ t.i > Len(t.order)

\* a queued signal with, as history, the tracker object that emitted it
Queued(sig, tid) == sig @@ [from |-> tid]

\* the signal queue takes what a step emits (the guard bounds the queue)
Emit(r) ==
    /\ Len(sigq) + Len(r.emit) <= MaxQueue
    /\ sigq' = sigq \o [n \in 1..Len(r.emit) |-> Queued(r.emit[n], r.t.tr)]

\* the update after the step, with what it emitted added to its history
After(r) == [r.t EXCEPT !.out = @ \o r.emit]

(* ------------------------------------------------------------------ *)
(* Worker threads: add_user's initial update and manual_update's       *)
(* ------------------------------------------------------------------ *)

WorkerApply(t, r) ==
    /\ Emit(r)
    /\ workers' = (workers (-) SetToBag({t}))
                  (+) (IF r.t.pc = "done" THEN EmptyBag ELSE SetToBag({After(r)}))
    /\ UNCHANGED <<trackers, player_list, poller, sortTimers, is_running,
                   upstream, now, settings, parsing, budget>>
    /\ obj' = Collect(r.o)

WorkerFetchFail(t) == t.pc = "fetch" /\ WorkerApply(t, FetchFailed(t))
WorkerFetch(t) == t.pc = "fetch" /\ WorkerApply(t, FetchReturned(t))
WorkerDiff(t) == InLoop(t) /\ WorkerApply(t, DiffStep(t))
WorkerCommit(t) == AtCommit(t) /\ WorkerApply(t, Commit(t))

(* ------------------------------------------------------------------ *)
(* HiveTrackerApp.polling_loop                                         *)
(* ------------------------------------------------------------------ *)

PollFrame == UNCHANGED <<trackers, player_list, workers, sortTimers,
                         is_running, upstream, now, settings, parsing, budget>>

\* a wrong Interval: the sleep of the displayed rate rpm / 2
IntervalOfDisplayedRate(requests_per_minute) ==
    (2 * 60000) \div requests_per_minute

\* interval = 60.0 / rpm (line 904), in milliseconds
Interval(requests_per_minute) == 60000 \div requests_per_minute

\* a wrong PollTop: the cycle's list holds the first tracker only
PollTopFirstOnly ==
    /\ poller.pc = "top"
    /\ poller' = IF ~is_running
                 THEN [poller EXCEPT !.pc = "exit"]
                 ELSE IF trackers = <<>>
                 THEN [poller EXCEPT !.pc = "idle", !.nap = IDLE_SLEEP]
                 ELSE [poller EXCEPT !.pc = "visit",
                          !.interval = Interval(rpm),
                          !.visited = <<>>,
                          !.sleeps = 0,
                          !.todo = <<trackers[1].tracker>>]
    /\ UNCHANGED sigq
    /\ PollFrame
    /\ obj' = Collect(obj)

\* lines 898-906: the while test, the empty test, list(self.trackers.values())
PollTop ==
    /\ poller.pc = "top"
    /\ poller' = IF ~is_running
                 THEN [poller EXCEPT !.pc = "exit"]
                 ELSE IF trackers = <<>>
                 THEN [poller EXCEPT !.pc = "idle", !.nap = IDLE_SLEEP]
                 ELSE [poller EXCEPT !.pc = "visit",
                          !.interval = Interval(rpm),
                          !.visited = <<>>,
                          !.sleeps = 0,
                          !.todo = [n \in 1..Len(trackers) |-> trackers[n].tracker]]
    /\ UNCHANGED sigq
    /\ PollFrame
    /\ obj' = Collect(obj)

\* lines 900-901: time.sleep(1); continue
PollIdle ==
    /\ poller.pc = "idle"
    /\ poller' = [poller EXCEPT !.pc = "top", !.nap = 0]
    /\ UNCHANGED <<sigq, obj>>
    /\ PollFrame

\* lines 906-911: the next tracker of the list, the stop test, update() called
PollVisit ==
    /\ poller.pc = "visit"
    /\ poller' = IF poller.todo = <<>> \/ ~is_running
                 THEN [poller EXCEPT !.pc = "top", !.todo = <<>>]
                 ELSE [poller EXCEPT !.pc = "upd",
                                     !.visited =
                                         Append(@, obj[Head(poller.todo)].username),
                                     !.upd = NewUpdate(Head(poller.todo))]
    /\ UNCHANGED sigq
    /\ PollFrame
    /\ obj' = Collect(obj)

\* a wrong PollApply: an update that ends at its fetch, failed or raising,
\* ends the polling loop
PollApplyUncaught(r) ==
    /\ Emit(r)
    /\ poller' = IF r.t.pc # "done"
                 THEN [poller EXCEPT !.upd = After(r)]
                 ELSE IF poller.upd.pc = "fetch"
                 THEN [poller EXCEPT !.pc = "exit", !.upd = NoUpdate]
                 ELSE IF is_running /\ poller.interval > 0
                 THEN [poller EXCEPT !.pc = "sleep", !.upd = NoUpdate,
                                     !.nap = poller.interval,
                                     !.sleeps = @ + 1]
                 ELSE [poller EXCEPT !.pc = "visit", !.upd = NoUpdate,
                                     !.todo = Tail(poller.todo)]
    /\ PollFrame
    /\ obj' = Collect(r.o)

\* a step of the update the loop is inside of; when update returns (or
\* raises, line 912) the loop tests is_running and interval (line 915) and
\* sleeps, or goes on to the next tracker at once
PollApply(r) ==
    /\ Emit(r)
    /\ poller' = IF r.t.pc # "done"
                 THEN [poller EXCEPT !.upd = After(r)]
                 ELSE IF is_running /\ poller.interval > 0
                 THEN [poller EXCEPT !.pc = "sleep", !.upd = NoUpdate,
                                     !.nap = poller.interval,
                                     !.sleeps = @ + 1]
                 ELSE [poller EXCEPT !.pc = "visit", !.upd = NoUpdate,
                                     !.todo = Tail(poller.todo)]
    /\ PollFrame
    /\ obj' = Collect(r.o)

PollFetchFail ==
    poller.pc = "upd" /\ poller.upd.pc = "fetch" /\ PollApply(FetchFailed(poller.upd))
PollFetch ==
    poller.pc = "upd" /\ poller.upd.pc = "fetch" /\ PollApply(FetchReturned(poller.upd))
\* the API answers with a body that is no JSON object
PollFetchOdd ==
    /\ poller.pc = "upd"
    /\ poller.upd.pc = "fetch"
    /\ \E api_data \in OddBodies : PollApply(FetchReturnedWith(poller.upd, api_data))
PollDiff ==
    poller.pc = "upd" /\ InLoop(poller.upd) /\ PollApply(DiffStep(poller.upd))
PollCommit ==
    poller.pc = "upd" /\ AtCommit(poller.upd) /\ PollApply(Commit(poller.upd))

\* a wrong PollWake: the tracker after the one just updated is passed over
PollWakeSkips ==
    /\ poller.pc = "sleep"
    /\ poller' = [poller EXCEPT !.pc = "visit", !.nap = 0,
                     !.todo = IF Len(poller.todo) >= 2
                              THEN Tail(Tail(poller.todo))
                              ELSE Tail(poller.todo)]
    /\ UNCHANGED sigq
    /\ PollFrame
    /\ obj' = Collect(obj)

\* lines 915-916: the rate-limit sleep is over, on to the next tracker
PollWake ==
    /\ poller.pc = "sleep"
    /\ poller' = [poller EXCEPT !.pc = "visit", !.nap = 0,
                                !.todo = Tail(poller.todo)]
    /\ UNCHANGED sigq
    /\ PollFrame
    /\ obj' = Collect(obj)

(* ------------------------------------------------------------------ *)
(* PlayerListItem                                                      *)
(* ------------------------------------------------------------------ *)

\* PlayerListItem.update_activity
update_activity(item, gamemode, result, timestamp) ==
    [item EXCEPT !.last_activity_time = Some(timestamp),
                 !.last_gamemode = gamemode,
                 !.last_result = result,
                 !.error_message = "",
                 !.current_background_color = IF result = "Win" THEN GREEN ELSE RED,
                 !.color_change_time = Some(timestamp)]

\* PlayerListItem.set_error
set_error(item, error_msg) ==
    [item EXCEPT !.error_message = error_msg,
                 !.current_background_color = GREY]

\* a wrong check_color_timeout: the expiry of the activity keeps the colour
check_color_timeout_keeps_colour(item, clock) ==
    IF /\ item.last_activity_time # None
       /\ clock - item.last_activity_time[1] >= ACTIVITY_TIMEOUT
    THEN [item EXCEPT !.last_activity_time = None,
                      !.last_gamemode = "",
                      !.last_result = ""]
    ELSE IF /\ item.color_change_time # None
            /\ item.current_background_color # GREY
            /\ clock - item.color_change_time[1] >= COLOR_TIMEOUT
    THEN [item EXCEPT !.current_background_color = GREY]
    ELSE item

\* a wrong check_color_timeout: the colour reverts a second early
check_color_timeout_early(item, clock) ==
    IF /\ item.last_activity_time # None
       /\ clock - item.last_activity_time[1] >= ACTIVITY_TIMEOUT
    THEN [item EXCEPT !.last_activity_time = None,
                      !.last_gamemode = "",
                      !.last_result = "",
                      !.current_background_color = GREY]
    ELSE IF /\ item.color_change_time # None
            /\ item.current_background_color # GREY
            /\ clock - item.color_change_time[1] >= COLOR_TIMEOUT - 1
    THEN [item EXCEPT !.current_background_color = GREY]
    ELSE item

\* a wrong check_color_timeout: at exactly ACTIVITY_TIMEOUT nothing expires
check_color_timeout_expires_late(item, clock) ==
    IF /\ item.last_activity_time # None
       /\ clock - item.last_activity_time[1] > ACTIVITY_TIMEOUT
    THEN [item EXCEPT !.last_activity_time = None,
                      !.last_gamemode = "",
                      !.last_result = "",
                      !.current_background_color = GREY]
    ELSE IF /\ item.color_change_time # None
            /\ item.current_background_color # GREY
            /\ clock - item.color_change_time[1] >= COLOR_TIMEOUT
    THEN [item EXCEPT !.current_background_color = GREY]
    ELSE item

\* PlayerListItem.check_color_timeout, at wall-clock time clock
check_color_timeout(item, clock) ==
    IF /\ item.last_activity_time # None
       /\ clock - item.last_activity_time[1] >= ACTIVITY_TIMEOUT
    THEN [item EXCEPT !.last_activity_time = None,
                      !.last_gamemode = "",
                      !.last_result = "",
                      !.current_background_color = GREY]
    ELSE IF /\ item.color_change_time # None
            /\ item.current_background_color # GREY
            /\ clock - item.color_change_time[1] >= COLOR_TIMEOUT
    THEN [item EXCEPT !.current_background_color = GREY]
    ELSE item

\* PlayerListItem.get_sort_key with the key function of sort_player_list:
\* (priority, -timestamp), (1, 0) without activity
SortKey(item) ==
    IF item.last_activity_time # None
    THEN <<0, 0 - item.last_activity_time[1]>>
    ELSE <<1, 0>>

KeyLE(a, b) == a[1] < b[1] \/ (a[1] = b[1] /\ a[2] <= b[2])

\* list.sort is stable: an item goes after the items whose key is <= its own
RECURSIVE InsertSorted(_, _)
InsertSorted(sorted, item) ==
    IF sorted = <<>> THEN <<item>>
    ELSE IF KeyLE(SortKey(sorted[Len(sorted)]), SortKey(item))
    THEN Append(sorted, item)
    ELSE Append(InsertSorted(SubSeq(sorted, 1, Len(sorted) - 1), item),
                sorted[Len(sorted)])

RECURSIVE SortItems(_, _)
SortItems(items, n) ==
    IF n = 0 THEN <<>> ELSE InsertSorted(SortItems(items, n - 1), items[n])

\* the position of the first item of the list with this username, 0 if none
FirstItem(items, username) ==
    IF \E n \in 1..Len(items) : items[n].username = username
    THEN CHOOSE n \in 1..Len(items) :
            /\ items[n].username = username
            /\ \A m \in 1..(n - 1) : items[m].username # username
    ELSE 0

(* ------------------------------------------------------------------ *)
(* GUI thread: slots and timers                                        *)
(* ------------------------------------------------------------------ *)

GuiFrame == UNCHANGED <<trackers, obj, workers, poller, is_running,
                        upstream, now, settings, parsing, budget>>

\* HiveTrackerApp.on_activity_detected, for the signal at the head of the queue
on_activity_detected ==
    /\ sigq # <<>>
    /\ Head(sigq).kind = "activity"
    /\ LET sig == Head(sigq)
           n == FirstItem(player_list, sig.username)
       IN  IF n # 0
           THEN /\ sortTimers < MaxSortTimers
                /\ player_list' =
                       [player_list EXCEPT ![n] =
                           update_activity(player_list[n], sig.gamemode,
                                           sig.result, sig.timestamp)]
                /\ sortTimers' = sortTimers + 1
           ELSE UNCHANGED <<player_list, sortTimers>>
    /\ sigq' = Tail(sigq)
    /\ GuiFrame

\* HiveTrackerApp.on_error_occurred, for the signal at the head of the queue
on_error_occurred ==
    /\ sigq # <<>>
    /\ Head(sigq).kind = "error"
    /\ LET sig == Head(sigq)
           n == FirstItem(player_list, sig.username)
       IN  player_list' =
               IF n # 0
               THEN [player_list EXCEPT ![n] = set_error(player_list[n], sig.message)]
               ELSE player_list
    /\ sigq' = Tail(sigq)
    /\ UNCHANGED sortTimers
    /\ GuiFrame

\* a wrong RecreateItem: the new item does not get the old one's error
RecreateItemWithoutError(data) ==
    [NewItem(data.username, data.tracker) EXCEPT
        !.last_activity_time = data.last_activity_time,
        !.last_gamemode = data.last_gamemode,
        !.last_result = data.last_result,
        !.current_background_color = data.current_background_color,
        !.color_change_time = data.color_change_time]

\* lines 821-828: the item sort_player_list puts in the place of an old one
RecreateItem(data) ==
    [NewItem(data.username, data.tracker) EXCEPT
        !.last_activity_time = data.last_activity_time,
        !.last_gamemode = data.last_gamemode,
        !.last_result = data.last_result,
        !.error_message = data.error_message,
        !.current_background_color = data.current_background_color,
        !.color_change_time = data.color_change_time]

\* HiveTrackerApp.sort_player_list, when a single-shot timer fires
sort_player_list ==
    /\ sortTimers > 0
    /\ sortTimers' = sortTimers - 1
    /\ LET items_data == SortItems(player_list, Len(player_list))
       IN  player_list' = [n \in 1..Len(items_data) |-> RecreateItem(items_data[n])]
    /\ UNCHANGED sigq
    /\ GuiFrame

\* HiveTrackerApp.check_color_timeouts, when color_timer fires
check_color_timeouts ==
    /\ player_list' = [n \in 1..Len(player_list) |->
                          check_color_timeout(player_list[n], now)]
    /\ UNCHANGED <<sigq, sortTimers>>
    /\ GuiFrame

(* ------------------------------------------------------------------ *)
(* GUI thread: what the user does                                      *)
(* ------------------------------------------------------------------ *)

\* a wrong is_blacklisted: the comparison minds the case
is_blacklisted_exact(username) ==
    LET username_strip == strip(username)
    IN  \/ \E i \in 1..Len(protected_blacklist) :
               strip(protected_blacklist[i]) = username_strip
        \/ \E i \in 1..Len(blacklist) :
               strip(blacklist[i]) = username_strip

\* HiveTrackerApp.is_blacklisted
is_blacklisted(username) ==
    LET username_lower == strip(lower(username))
    IN  \/ \E i \in 1..Len(protected_blacklist) :
               strip(lower(protected_blacklist[i])) = username_lower
        \/ \E i \in 1..Len(blacklist) :
               strip(lower(blacklist[i])) = username_lower

\* HiveTrackerApp.add_user with the dialog accepted, text what was typed
add_user(text) ==
    /\ budget > 0
    /\ budget' = budget - 1
    /\ UNCHANGED <<poller, sigq, sortTimers, is_running, upstream, now,
                   blacklist, rpm, parsing>>
    /\ LET username == strip(text)
       IN  IF username = <<>>
           THEN /\ message_box' = None
                /\ UNCHANGED <<trackers, player_list, workers>>
                /\ obj' = Collect(obj)
           ELSE IF is_blacklisted(username)
           THEN /\ message_box' = Some("Blacklisted")
                /\ UNCHANGED <<trackers, player_list, workers>>
                /\ obj' = Collect(obj)
           ELSE IF username \in TrackedNames
           THEN /\ message_box' = Some("Already Tracking")
                /\ UNCHANGED <<trackers, player_list, workers>>
                /\ obj' = Collect(obj)
           ELSE /\ BagCardinality(workers) < MaxWorkers
                /\ message_box' = None
                /\ LET tid == FreshId
                   IN  /\ trackers' = Append(trackers,
                                             [username |-> username, tracker |-> tid])
                       /\ player_list' = Append(player_list, NewItem(username, tid))
                       /\ workers' = workers (+) SetToBag({NewUpdate(tid)})
                       /\ obj' = Collect((tid :> NewTracker(username)) @@ obj)

\* BlacklistDialog.get_blacklist: the stripped lines that are not blank
RECURSIVE get_blacklist(_)
get_blacklist(lines) ==
    IF lines = <<>> THEN <<>>
    ELSE IF strip(Head(lines)) # <<>>
    THEN <<strip(Head(lines))>> \o get_blacklist(Tail(lines))
    ELSE get_blacklist(Tail(lines))

\* HiveTrackerApp.open_blacklist_dialog with the dialog accepted, lines the
\* lines of its text box
open_blacklist_dialog(lines) ==
    /\ budget > 0
    /\ budget' = budget - 1
    /\ blacklist' = get_blacklist(lines)
    /\ UNCHANGED <<trackers, obj, player_list, workers, poller, sigq, sortTimers,
                   is_running, upstream, now, message_box, rpm, parsing>>

\* HiveTrackerApp.remove_user
remove_user(username) ==
    /\ budget > 0
    /\ username \in TrackedNames
    /\ trackers' = SelectSeq(trackers, LAMBDA e : e.username # username)
    /\ LET n == FirstItem(player_list, username)
       IN  player_list' =
               IF n = 0 THEN player_list
               ELSE SubSeq(player_list, 1, n - 1)
                    \o SubSeq(player_list, n + 1, Len(player_list))
    /\ budget' = budget - 1
    /\ UNCHANGED <<workers, poller, sigq, sortTimers, is_running, upstream, now,
                   settings, parsing>>
    /\ obj' = Collect(obj)

\* the user sets rpm_spinbox to value; its valueChanged slot update_header
\* only rewrites the header text
rpm_spinbox_setValue(value) ==
    /\ budget > 0
    /\ value # rpm
    /\ rpm' = value
    /\ budget' = budget - 1
    /\ UNCHANGED <<trackers, obj, player_list, workers, poller, sigq, sortTimers,
                   is_running, upstream, now, blacklist, message_box, parsing>>

\* HiveTrackerApp.manual_update
manual_update ==
    /\ budget > 0
    /\ trackers # <<>>
    /\ BagCardinality(workers) + Len(trackers) <= MaxWorkers
    /\ workers' = workers (+) SetToBag({NewUpdate(trackers[n].tracker) :
                                           n \in 1..Len(trackers)})
    /\ budget' = budget - 1
    /\ UNCHANGED <<trackers, obj, player_list, poller, sigq, sortTimers,
                   is_running, upstream, now, settings, parsing>>

\* HiveTrackerApp.stop_polling
stop_polling ==
    /\ budget > 0
    /\ is_running
    /\ is_running' = FALSE
    /\ budget' = budget - 1
    /\ UNCHANGED <<trackers, obj, player_list, workers, poller, sigq,
                   sortTimers, upstream, now, settings, parsing>>

(* ------------------------------------------------------------------ *)
(* Environment: the players play, the clock advances                   *)
(* ------------------------------------------------------------------ *)

EnvFrame == UNCHANGED <<trackers, obj, player_list, workers, poller, sigq,
                        sortTimers, is_running, settings, parsing>>

\* the counters the API may hold for one gamemode of one player
Counters ==
    {[played |-> p, victories |-> w] : p \in 0..MaxCount, w \in 0..MaxCount}

\* the API now answers gd for gamemode g of a tracked player: a match was
\* played, won or lost, a counter was corrected, the statistics were reset
UpstreamChange(username, g, gd) ==
    /\ budget > 0
    /\ username \in TrackedNames
    /\ gd \in Counters
    /\ gd.victories <= gd.played
    /\ g \in DOMAIN upstream[username] => upstream[username][g] # gd
    /\ upstream' = [upstream EXCEPT ![username] = (g :> gd) @@ @]
    /\ budget' = budget - 1
    /\ UNCHANGED now
    /\ EnvFrame

\* the counters after one more match, won or lost
MatchPlayed(gd, won) ==
    [played |-> gd.played + 1,
     victories |-> gd.victories + (IF won THEN 1 ELSE 0)]

\* the clock steps that reach both timeouts exactly and from just below
TimeSteps ==
    {1, COLOR_TIMEOUT - 1, ACTIVITY_TIMEOUT - COLOR_TIMEOUT, ACTIVITY_TIMEOUT}

AdvanceTime(d) ==
    /\ budget > 0
    /\ now' = now + d
    /\ budget' = budget - 1
    /\ UNCHANGED upstream
    /\ EnvFrame

(* ------------------------------------------------------------------ *)
(* Specifications                                                      *)
(* ------------------------------------------------------------------ *)

\* no other update of the same tracker is between its fetch and its commit
Isolated(t) ==
    \A other \in RunningUpdates : other.tr = t.tr => other.pc # "diff"

WorkerStep ==
    \E t \in BagToSet(workers) :
        \/ WorkerFetchFail(t)
        \/ WorkerFetch(t)
        \/ WorkerDiff(t)
        \/ WorkerCommit(t)

PollStep ==
    \/ PollTop
    \/ PollIdle
    \/ PollVisit
    \/ PollFetchFail
    \/ PollFetch
    \/ PollDiff
    \/ PollCommit
    \/ PollWake

GuiStep ==
    \/ on_activity_detected
    \/ on_error_occurred
    \/ sort_player_list

\* the username the racing and the serial specification track
OneUser == {Alex}

\* the engine with its threads racing: the polling thread, add_user's
\* initial update, manual_update's threads, the GUI thread's slots
Next ==
    \/ WorkerStep
    \/ PollStep
    \/ GuiStep
    \/ \E u \in OneUser : u \notin TrackedNames /\ add_user(u)
    \/ \E u \in OneUser : remove_user(u)
    \/ manual_update
    \/ \E u \in OneUser, g \in DOMAIN GAMEMODE_MAPPING, gd \in Counters :
           UpstreamChange(u, g, gd)

Spec == Init /\ [][Next]_vars

\* the same engine when the updates of one player do not overlap: an update
\* gets its response only while no other update of that tracker is between
\* its fetch and its commit
SeqWorkerStep ==
    \E t \in BagToSet(workers) :
        \/ WorkerFetchFail(t)
        \/ Isolated(t) /\ WorkerFetch(t)
        \/ WorkerDiff(t)
        \/ WorkerCommit(t)

SeqPollStep ==
    \/ PollTop
    \/ PollIdle
    \/ PollVisit
    \/ PollFetchFail
    \/ Isolated(poller.upd) /\ PollFetch
    \/ PollDiff
    \/ PollCommit
    \/ PollWake

\* what the API holds when the serial specification starts: no match played
\* in the last gamemode, no statistics for the others
SeqApi == ("bed" :> [played |-> 0, victories |-> 0])

InitSeq ==
    /\ trackers = <<>>
    /\ obj = <<>>
    /\ player_list = <<>>
    /\ workers = EmptyBag
    /\ poller = PollerAtTop
    /\ sigq = <<>>
    /\ sortTimers = 0
    /\ is_running = TRUE
    /\ upstream = [u \in Usernames |-> SeqApi]
    /\ now = 0
    /\ blacklist = <<>>
    /\ message_box = None
    /\ rpm = DefaultRpm
    /\ parse_input = JNull
    /\ parse_result = None
    /\ budget = MaxSeqSteps

NextSeq ==
    \/ SeqWorkerStep
    \/ SeqPollStep
    \/ GuiStep
    \/ \E u \in OneUser : u \notin TrackedNames /\ add_user(u)
    \/ \E u \in OneUser : remove_user(u)
    \/ \E u \in OneUser, g \in DOMAIN GAMEMODE_MAPPING, gd \in Counters :
           UpstreamChange(u, g, gd)

SpecSeq == InitSeq /\ [][NextSeq]_vars

\* the list and its aging: both players tracked, their first fetch done
\* (every gamemode of AgeGamemodes at zero), the polling thread the only one
\* updating, the clock advancing and color_timer firing
AgeGamemodes == {"bed"}

AgeBaseline == [g \in AgeGamemodes |-> GameData(0, 0)]

InitAge ==
    /\ trackers = <<[username |-> Alex, tracker |-> 1],
                    [username |-> Bo, tracker |-> 2]>>
    /\ obj = [tid \in {1, 2} |->
                 [NewTracker(trackers[tid].username) EXCEPT
                     !.previous_data = AgeBaseline,
                     !.lastFetched = Some(AgeBaseline)]]
    /\ player_list = <<NewItem(Alex, 1), NewItem(Bo, 2)>>
    /\ workers = EmptyBag
    /\ poller = PollerAtTop
    /\ sigq = <<>>
    /\ sortTimers = 0
    /\ is_running = TRUE
    /\ upstream = [u \in Usernames |->
                      [g \in AgeGamemodes |-> [played |-> 0, victories |-> 0]]]
    /\ now = 0
    /\ blacklist = <<>>
    /\ message_box = None
    /\ rpm = DefaultRpm
    /\ parse_input = JNull
    /\ parse_result = None
    /\ budget = MaxAgeSteps

\* polling_loop with a tracked set that is never empty
AgePollStep ==
    \/ PollTop
    \/ PollVisit
    \/ PollFetchFail
    \/ PollFetch
    \/ PollDiff
    \/ PollCommit
    \/ PollWake

NextAge ==
    \/ AgePollStep
    \/ GuiStep
    \/ check_color_timeouts
    \/ \E u \in Usernames, g \in AgeGamemodes, won \in BOOLEAN :
           UpstreamChange(u, g, MatchPlayed(upstream[u][g], won))
    \/ \E d \in TimeSteps : AdvanceTime(d)

SpecAge == InitAge /\ [][NextAge]_vars

\* the add boundary: what is typed into the add dialog (blank, padded, in
\* another case, a protected name in another case) and into the blacklist
\* dialog (nothing; a padded name in capitals and a blank line)
AddTexts ==
    {<<" ">>, Alex, <<" ">> \o Alex \o <<" ">>, lower(Alex),
     <<"h", "0", "N", "R", "I", " ">>}

BlacklistLines == {<<>>, << <<" ", "A", "L", "E", "X", " ">>, <<" ">> >>}

AddNames == {strip(text) : text \in AddTexts} \ {<<>>}

InitAdd ==
    /\ trackers = <<>>
    /\ obj = <<>>
    /\ player_list = <<>>
    /\ workers = EmptyBag
    /\ poller = PollerAtTop
    /\ sigq = <<>>
    /\ sortTimers = 0
    /\ is_running = TRUE
    /\ upstream = [u \in AddNames |-> NoApi]
    /\ now = 0
    /\ blacklist = <<>>
    /\ message_box = None
    /\ rpm = DefaultRpm
    /\ parse_input = JNull
    /\ parse_result = None
    /\ budget = MaxAddSteps

\* the initial update of an added player; the API holds no statistics
AddWorkerStep ==
    \E t \in BagToSet(workers) :
        \/ WorkerFetchFail(t)
        \/ WorkerFetch(t)
        \/ WorkerCommit(t)

NextAdd ==
    \/ \E text \in AddTexts : add_user(text)
    \/ \E lines \in BlacklistLines : open_blacklist_dialog(lines)
    \/ \E u \in AddNames : remove_user(u)
    \/ AddWorkerStep
    \/ on_error_occurred

SpecAdd == InitAdd /\ [][NextAdd]_vars

(* ------------------------------------------------------------------ *)
(* Properties                                                          *)
(* ------------------------------------------------------------------ *)

\* the activity signals update t has emitted for gamemode g
EventsFor(t, g) ==
    SelectSeq(t.out, LAMBDA e : e.kind = "activity"
                                /\ e.gamemode = GAMEMODE_MAPPING[g])

\* the gamemodes the for loop of update t is through with
Handled(t) == {t.order[j] : j \in 1..(t.i - 1)}

\* C1: with updates of a player one at a time, an update that fetched
\* snapshot cur against the baseline base has emitted, for every gamemode of
\* both that its loop is through with, exactly one activity signal when
\* games_played grew and none otherwise; the signal says Win exactly when
\* victories grew, Loss in every other case.
C1_OneEventPerAdvance ==
    \A t \in RunningUpdates :
        t.pc = "diff" =>
            \A g \in Handled(t) \cap DOMAIN t.base :
                LET ev == EventsFor(t, g)
                IN  IF t.cur[g].games_played > t.base[g].games_played
                    THEN /\ Len(ev) = 1
                         /\ ev[1].username = obj[t.tr].username
                         /\ ev[1].result =
                                IF t.cur[g].victories > t.base[g].victories
                                THEN "Win" ELSE "Loss"
                    ELSE ev = <<>>

\* an update is through: one more game and fewer victories than the baseline,
\* reported once, as a Loss
C1_Witness ==
    \E t \in RunningUpdates :
        /\ AtCommit(t)
        /\ \E g \in DOMAIN t.base \cap DOMAIN t.cur :
               /\ t.cur[g].games_played > t.base[g].games_played
               /\ t.cur[g].victories < t.base[g].victories
               /\ Len(EventsFor(t, g)) = 1
               /\ EventsFor(t, g)[1].result = "Loss"

\* C2: an update between its fetch and its commit still has the baseline it
\* found when its fetch returned: no other update of the player has replaced
\* previous_data in between.
C2_UpdateIsAtomic ==
    \A t \in RunningUpdates :
        t.pc = "diff" => obj[t.tr].previous_data = t.base

\* C3: a signal is emitted only for a username that is tracked: nothing is
\* emitted for a player after remove_user.
C3_NoSignalAfterRemove ==
    [][\A k \in (Len(sigq) + 1)..Len(sigq') :
           sigq'[k].username \in TrackedNames]_vars

\* the step is update t getting no response from the API
FailStep(t) ==
    \/ t \in BagToSet(workers) /\ WorkerFetchFail(t)
    \/ poller.pc = "upd" /\ t = poller.upd /\ PollFetchFail

LastActivityOf(item) ==
    <<item.last_activity_time, item.last_gamemode, item.last_result>>

\* C4: an update whose fetch fails sets the tracker's error, emits the error
\* signal and leaves previous_data and last_activity as they were; the slot
\* that delivers the signal sets the item's error and makes it grey, and
\* leaves the item's last activity (time, gamemode, result) as it was.
C4_FetchFailure ==
    [][/\ \A t \in RunningUpdates :
              FailStep(t) =>
                  /\ sigq' = Append(sigq, Queued(ErrorSignal(obj[t.tr].username,
                                                              API_ERROR), t.tr))
                  /\ t.tr \in DOMAIN obj' =>
                         /\ obj'[t.tr].error_message = API_ERROR
                         /\ obj'[t.tr].previous_data = obj[t.tr].previous_data
                         /\ obj'[t.tr].last_activity = obj[t.tr].last_activity
       /\ on_error_occurred =>
              LET n == FirstItem(player_list, Head(sigq).username)
              IN  n # 0 =>
                      /\ player_list'[n].error_message = Head(sigq).message
                      /\ player_list'[n].current_background_color = GREY
                      /\ LastActivityOf(player_list'[n]) = LastActivityOf(player_list[n])
                      /\ player_list'[n].color_change_time
                             = player_list[n].color_change_time
      ]_vars

\* a player with a baseline and a recorded activity whose fetch then failed
C4_Witness ==
    \E n \in 1..Len(player_list) :
        /\ player_list[n].error_message = API_ERROR
        /\ player_list[n].current_background_color = GREY
        /\ player_list[n].last_activity_time # None
        /\ obj[player_list[n].tracker].error_message = API_ERROR
        /\ obj[player_list[n].tracker].last_activity # None
        /\ DOMAIN obj[player_list[n].tracker].previous_data # {}

\* nothing of the player is under way: no update running, no signal queued
Quiet(item) ==
    /\ \A t \in RunningUpdates : t.tr # item.tracker
    /\ \A k \in 1..Len(sigq) : sigq[k].username # item.username

\* C5: once a player's latest fetch has succeeded and everything it emitted
\* is delivered, neither the tracker nor the list item holds an error.
C5_SuccessClearsError ==
    \A n \in 1..Len(player_list) :
        (/\ Quiet(player_list[n])
         /\ obj[player_list[n].tracker].lastFetched # None
         /\ obj[player_list[n].tracker].error_message = "")
        => player_list[n].error_message = ""

\* C6: with updates of a player one at a time, previous_data is the snapshot
\* of the latest successful fetch whenever no update is between its fetch and
\* its commit, and an update reports a gamemode exactly when games_played
\* grew since the preceding successful fetch, once.
C6_BaselineFollowsEveryPoll ==
    /\ \A tid \in DOMAIN obj :
           (/\ obj[tid].lastFetched # None
            /\ \A t \in RunningUpdates : ~(t.tr = tid /\ t.pc = "diff"))
           => obj[tid].previous_data = obj[tid].lastFetched[1]
    /\ \A t \in RunningUpdates :
           (t.pc = "diff" /\ t.prevPoll # None) =>
               \A g \in Handled(t) \cap DOMAIN t.prevPoll[1] :
                   Len(EventsFor(t, g)) =
                       IF t.cur[g].games_played > t.prevPoll[1][g].games_played
                       THEN 1 ELSE 0

\* the second of two polls that each found one more game: the first event is
\* on the list item, the second one emitted
C6_Witness ==
    \E t \in RunningUpdates :
        /\ AtCommit(t)
        /\ t.prevPoll # None
        /\ \E g \in DOMAIN t.cur \cap DOMAIN t.prevPoll[1] :
               /\ t.prevPoll[1][g].games_played = 1
               /\ t.cur[g].games_played = 2
               /\ Len(EventsFor(t, g)) = 1
               /\ \E n \in 1..Len(player_list) :
                      /\ player_list[n].tracker = t.tr
                      /\ player_list[n].last_gamemode = GAMEMODE_MAPPING[g]

\* C7: with updates of a player one at a time, an update emits nothing for a
\* gamemode its baseline does not hold, and every gamemode of the preceding
\* successful fetch is in the baseline the update compares with.
C7_NewGamemodeOnlySeeds ==
    \A t \in RunningUpdates :
        t.pc = "diff" =>
            /\ \A g \in Handled(t) \ DOMAIN t.base : EventsFor(t, g) = <<>>
            /\ t.prevPoll # None => DOMAIN t.prevPoll[1] \subseteq DOMAIN t.base

\* a later poll brings a gamemode with games played that the baseline lacks
C7_Witness ==
    \E t \in RunningUpdates :
        /\ AtCommit(t)
        /\ t.prevPoll # None
        /\ t.out = <<>>
        /\ \E g \in DOMAIN t.cur \ DOMAIN t.base : t.cur[g].games_played > 0

\* C8: the update whose fetch is the player's first successful one emits no
\* activity signal.
C8_FirstFetchSilent ==
    \A t \in RunningUpdates :
        (t.pc = "diff" /\ t.prevPoll = None) => t.out = <<>>

\* C9: an item that is green or red has a last activity time, and its
\* colour change time is that time.
C9_FreshHasActivity ==
    \A n \in 1..Len(player_list) :
        player_list[n].current_background_color # GREY =>
            /\ player_list[n].last_activity_time # None
            /\ player_list[n].color_change_time = player_list[n].last_activity_time

\* the list re-sorted: the second player on top and fresh, the first one
\* below it with a fetch error
C9_Witness ==
    /\ Len(player_list) = 2
    /\ player_list[1].username = Bo
    /\ player_list[1].current_background_color \in {GREEN, RED}
    /\ player_list[2].error_message = API_ERROR
    /\ sortTimers = 0

\* what color_timer's tick does to the items that are green or red: body
\* says what holds of the item before (it) and after (it2) when the colour
\* is at least COLOR_TIMEOUT old
TickOnFresh(late(_, _)) ==
    check_color_timeouts =>
        \A n \in 1..Len(player_list) :
            LET it == player_list[n]
                it2 == player_list'[n]
            IN  (it.current_background_color # GREY /\ it.color_change_time # None)
                => IF now - it.color_change_time[1] < COLOR_TIMEOUT
                   THEN it2 = it
                   ELSE /\ it2.current_background_color = GREY
                        /\ late(it, it2)

\* C10 as stated: a tick earlier than T+30 leaves the colour, the first tick
\* at T+30 or later makes the item grey and leaves its last activity.
C10_RevertKeepsActivity ==
    [][TickOnFresh(LAMBDA it, it2 : LastActivityOf(it2) = LastActivityOf(it))]_vars

\* C10 amended: ... and leaves its last activity when the tick is earlier
\* than T+1000.
C10_RevertKeepsActivityBeforeExpiry ==
    [][TickOnFresh(LAMBDA it, it2 :
           now - it.color_change_time[1] < ACTIVITY_TIMEOUT
           => LastActivityOf(it2) = LastActivityOf(it))]_vars

\* an item reverted to grey by the tick, its last activity still there
C10_Witness ==
    \E n \in 1..Len(player_list) :
        /\ player_list[n].current_background_color = GREY
        /\ player_list[n].error_message = ""
        /\ player_list[n].last_activity_time # None
        /\ player_list[n].color_change_time = player_list[n].last_activity_time
        /\ now - player_list[n].color_change_time[1] >= COLOR_TIMEOUT

\* C11: a tick earlier than T+1000 leaves the last activity of an item whose
\* last activity is of time T; a tick at T+1000 or later clears its time,
\* gamemode and result, whatever the item's colour and error are.
C11_ActivityExpires ==
    [][check_color_timeouts =>
           \A n \in 1..Len(player_list) :
               player_list[n].last_activity_time # None =>
                   IF now - player_list[n].last_activity_time[1] < ACTIVITY_TIMEOUT
                   THEN LastActivityOf(player_list'[n]) = LastActivityOf(player_list[n])
                   ELSE LastActivityOf(player_list'[n]) = <<None, "", "">>
      ]_vars

\* an item in error whose activity a tick has cleared
C11_Witness ==
    \E n \in 1..Len(player_list) :
        /\ player_list[n].last_activity_time = None
        /\ player_list[n].last_gamemode = ""
        /\ player_list[n].last_result = ""
        /\ player_list[n].color_change_time # None
        /\ player_list[n].error_message = API_ERROR
        /\ now - player_list[n].color_change_time[1] >= ACTIVITY_TIMEOUT

\* the cycle of the polling thread: one to MaxPlayers players tracked and
\* not yet fetched, the spin box at its least, default or greatest value, the
\* polling thread the only one updating, no match played meanwhile, fetches
\* failing or answered with any body
PollNames == <<Alex, Bo, Cy, Di>>

RpmValues == {1, DefaultRpm, 300}

InitPoll ==
    /\ \E n \in 1..MaxPlayers :
           /\ trackers = [i \in 1..n |-> [username |-> PollNames[i], tracker |-> i]]
           /\ obj = [tid \in 1..n |-> NewTracker(PollNames[tid])]
           /\ player_list = [i \in 1..n |-> NewItem(PollNames[i], i)]
    /\ workers = EmptyBag
    /\ poller = PollerAtTop
    /\ sigq = <<>>
    /\ sortTimers = 0
    /\ is_running = TRUE
    /\ upstream = [u \in {PollNames[i] : i \in 1..Len(PollNames)} |-> SeqApi]
    /\ now = 0
    /\ blacklist = <<>>
    /\ message_box = None
    /\ rpm \in RpmValues
    /\ parse_input = JNull
    /\ parse_result = None
    /\ budget = 0

NextPoll ==
    \/ PollTop
    \/ PollVisit
    \/ PollFetchFail
    \/ PollFetch
    \/ PollFetchOdd
    \/ PollDiff
    \/ PollCommit
    \/ PollWake
    \/ on_error_occurred

SpecPoll == InitPoll /\ [][NextPoll]_vars

\* the polling thread is scheduled and every request ends (timeout=10);
\* the GUI thread's event loop delivers the queued signals
PollThread ==
    \/ PollTop
    \/ PollVisit
    \/ PollFetchFail
    \/ PollFetch
    \/ PollFetchOdd
    \/ PollDiff
    \/ PollCommit
    \/ PollWake

\* the same cycle with the spin box left at its default
InitPollFair ==
    /\ \E n \in 1..MaxFairPlayers :
           /\ trackers = [i \in 1..n |-> [username |-> PollNames[i], tracker |-> i]]
           /\ obj = [tid \in 1..n |-> NewTracker(PollNames[tid])]
           /\ player_list = [i \in 1..n |-> NewItem(PollNames[i], i)]
    /\ workers = EmptyBag
    /\ poller = PollerAtTop
    /\ sigq = <<>>
    /\ sortTimers = 0
    /\ is_running = TRUE
    /\ upstream = [u \in {PollNames[i] : i \in 1..Len(PollNames)} |-> SeqApi]
    /\ now = 0
    /\ blacklist = <<>>
    /\ message_box = None
    /\ rpm = DefaultRpm
    /\ parse_input = JNull
    /\ parse_result = None
    /\ budget = 0

SpecPollFair ==
    /\ InitPollFair
    /\ [][NextPoll]_vars
    /\ WF_vars(PollThread)
    /\ WF_vars(on_error_occurred)

\* the shutdown: none to MaxStopPlayers players tracked, the polling thread
\* cycling, manual updates while the window is open, then closeEvent's
\* stop_polling; the window takes no clicks once it is closing
InitStop ==
    /\ \E n \in 0..MaxStopPlayers :
           /\ trackers = [i \in 1..n |-> [username |-> PollNames[i], tracker |-> i]]
           /\ obj = [tid \in 1..n |-> NewTracker(PollNames[tid])]
           /\ player_list = [i \in 1..n |-> NewItem(PollNames[i], i)]
    /\ workers = EmptyBag
    /\ poller = PollerAtTop
    /\ sigq = <<>>
    /\ sortTimers = 0
    /\ is_running = TRUE
    /\ upstream = [u \in {PollNames[i] : i \in 1..Len(PollNames)} |-> SeqApi]
    /\ now = 0
    /\ blacklist = <<>>
    /\ message_box = None
    /\ rpm \in RpmValues
    /\ parse_input = JNull
    /\ parse_result = None
    /\ budget = MaxStopSteps

NextStop ==
    \/ PollTop
    \/ PollIdle
    \/ PollVisit
    \/ PollFetchFail
    \/ PollFetch
    \/ PollDiff
    \/ PollCommit
    \/ PollWake
    \/ WorkerStep
    \/ on_error_occurred
    \/ is_running /\ manual_update
    \/ stop_polling

SpecStop == InitStop /\ [][NextStop]_vars

\* the polling cycle while the user turns the spin box
MaxRatePlayers == 2
MaxRateSteps == 2

InitRate ==
    /\ \E n \in 1..MaxRatePlayers :
           /\ trackers = [i \in 1..n |-> [username |-> PollNames[i], tracker |-> i]]
           /\ obj = [tid \in 1..n |-> NewTracker(PollNames[tid])]
           /\ player_list = [i \in 1..n |-> NewItem(PollNames[i], i)]
    /\ workers = EmptyBag
    /\ poller = PollerAtTop
    /\ sigq = <<>>
    /\ sortTimers = 0
    /\ is_running = TRUE
    /\ upstream = [u \in {PollNames[i] : i \in 1..Len(PollNames)} |-> SeqApi]
    /\ now = 0
    /\ blacklist = <<>>
    /\ message_box = None
    /\ rpm \in RpmValues
    /\ parse_input = JNull
    /\ parse_result = None
    /\ budget = MaxRateSteps

NextRate ==
    \/ PollTop
    \/ PollVisit
    \/ PollFetchFail
    \/ PollFetch
    \/ PollDiff
    \/ PollCommit
    \/ PollWake
    \/ on_error_occurred
    \/ \E value \in RpmValues : rpm_spinbox_setValue(value)

SpecRate == InitRate /\ [][NextRate]_vars

\* one player with statistics in every gamemode, the first fetch done, the
\* polling thread the only one updating; matches are played in any of the
\* gamemodes and the API writes the gamemodes of its body in any order
MaxOrderSteps == 3

OrderBaseline == [g \in DOMAIN GAMEMODE_MAPPING |-> GameData(0, 0)]

\* the orders the elements of the set keys can be written in
Orders(keys) ==
    {s \in [1..Cardinality(keys) -> keys] :
         \A a, b \in 1..Cardinality(keys) : s[a] = s[b] => a = b}

InitOrder ==
    /\ trackers = <<[username |-> Alex, tracker |-> 1]>>
    /\ obj = (1 :> [NewTracker(Alex) EXCEPT
                       !.previous_data = OrderBaseline,
                       !.lastFetched = Some(OrderBaseline)])
    /\ player_list = <<NewItem(Alex, 1)>>
    /\ workers = EmptyBag
    /\ poller = PollerAtTop
    /\ sigq = <<>>
    /\ sortTimers = 0
    /\ is_running = TRUE
    /\ upstream = [u \in Usernames |->
                      [g \in DOMAIN GAMEMODE_MAPPING |->
                          [played |-> 0, victories |-> 0]]]
    /\ now = 0
    /\ blacklist = <<>>
    /\ message_box = None
    /\ rpm = DefaultRpm
    /\ parse_input = JNull
    /\ parse_result = None
    /\ budget = MaxOrderSteps

\* the API answers with the counters it holds, the keys of the body in one
\* of their orders
PollFetchOrdered ==
    /\ poller.pc = "upd"
    /\ poller.upd.pc = "fetch"
    /\ LET body == ApiResponse(obj[poller.upd.tr].username)
       IN  \E keys \in Orders(DOMAIN body.v) :
               PollApply(FetchReturnedWith(poller.upd, JObject(keys, body.v)))

NextOrder ==
    \/ PollTop
    \/ PollVisit
    \/ PollFetchOrdered
    \/ PollDiff
    \/ PollCommit
    \/ PollWake
    \/ on_activity_detected
    \/ sort_player_list
    \/ \E u \in OneUser, g \in DOMAIN GAMEMODE_MAPPING, won \in BOOLEAN :
           UpstreamChange(u, g, MatchPlayed(upstream[u][g], won))

SpecOrder == InitOrder /\ [][NextOrder]_vars

\* the polling loop while players come and go: one player tracked at the
\* start, players added (each with its initial update) and removed, fetches
\* failing or not.  The polling thread is scheduled and every request ends
\* (timeout=10); the GUI thread's event loop delivers the queued signals
MaxLiveSteps == 2

InitLive ==
    /\ trackers = <<[username |-> Alex, tracker |-> 1]>>
    /\ obj = (1 :> NewTracker(Alex))
    /\ player_list = <<NewItem(Alex, 1)>>
    /\ workers = EmptyBag
    /\ poller = PollerAtTop
    /\ sigq = <<>>
    /\ sortTimers = 0
    /\ is_running = TRUE
    /\ upstream = [u \in Usernames |-> SeqApi]
    /\ now = 0
    /\ blacklist = <<>>
    /\ message_box = None
    /\ rpm = DefaultRpm
    /\ parse_input = JNull
    /\ parse_result = None
    /\ budget = MaxLiveSteps

NextLive ==
    \/ PollStep
    \/ WorkerStep
    \/ on_error_occurred
    \/ \E u \in Usernames : u \notin TrackedNames /\ add_user(u)
    \/ \E u \in Usernames : remove_user(u)

SpecLive ==
    /\ InitLive
    /\ [][NextLive]_vars
    /\ WF_vars(PollStep)
    /\ WF_vars(on_error_occurred)

\* the same player while manual updates run beside the polling loop: every
\* fetch succeeds, the counters of the API only grow, and the signals stay
\* queued (the GUI thread is busy)
RaceWorkerStep ==
    \E t \in BagToSet(workers) :
        \/ WorkerFetch(t)
        \/ WorkerDiff(t)
        \/ WorkerCommit(t)

NextRace ==
    \/ PollTop
    \/ PollVisit
    \/ PollFetch
    \/ PollDiff
    \/ PollCommit
    \/ PollWake
    \/ RaceWorkerStep
    \/ manual_update
    \/ \E u \in OneUser, g \in DOMAIN GAMEMODE_MAPPING, won \in BOOLEAN :
           UpstreamChange(u, g, MatchPlayed(upstream[u][g], won))

SpecRace == InitOrder /\ [][NextRace]_vars

(* ------------------------------------------------------------------ *)
(* HiveAPI.parse_game_data called on its own                           *)
(* ------------------------------------------------------------------ *)

\* the most fields a single record of the inputs has
MaxFields == 3

\* the most fields a record inside a list has, and the longest list
MaxItemFields == 2
MaxListLen == 2

\* the field names the two extraction loops look for
ListedFields ==
    {PlayedFields[i] : i \in 1..Len(PlayedFields)}
    \cup {VictoryFields[i] : i \in 1..Len(VictoryFields)}

\* the dicts with at most n of the names, each with one of the values
DictsOver(names, values, n) ==
    UNION {[d -> values] : d \in {x \in SUBSET names : Cardinality(x) <= n}}

\* a gamemode's value as a single record
FieldValues == {JNum(1), JNum(2), JNull, JStr("x")}
SingleRecords == {JDict(r) : r \in DictsOver(ListedFields, FieldValues, MaxFields)}

\* a gamemode's value as a list: records, and an item that is no record
ItemFields == {"played", "games", "total_games", "victories", "win_count"}
ItemValues == {JNum(0), JNum(2), JNull}
ListItems ==
    {JDict(r) : r \in DictsOver(ItemFields, ItemValues, MaxItemFields)}
    \cup {JNum(1)}
RecordLists ==
    {JList(l) : l \in UNION {[1..n -> ListItems] : n \in 0..MaxListLen}}

\* a gamemode's value that is neither
ScalarValues ==
    {JNum(0), JNum(2), JBool(TRUE), JBool(FALSE), JNull,
     JStr("unexpected_string"), JStr("")}

ModeValues == SingleRecords \cup RecordLists \cup ScalarValues

\* response bodies that are no object
TopLevelOdd ==
    {JNum(5), JBool(TRUE), JBool(FALSE), JStr("bed"), JStr("oops"),
     JList(<<>>), JList(<<JStr("bed")>>), JList(<<JNum(1)>>)}

\* response bodies: objects with one key (a gamemode or not), objects with
\* both gamemodes, and the bodies that are no object
ParseInputs ==
    {JDict(g :> v) : g \in {"sky", "bed", "xp"}, v \in ModeValues}
    \cup {JDict(("sky" :> v) @@ ("bed" :> w)) :
              v \in ScalarValues, w \in ScalarValues}
    \cup TopLevelOdd

InitParse ==
    /\ trackers = <<>>
    /\ obj = <<>>
    /\ player_list = <<>>
    /\ workers = EmptyBag
    /\ poller = PollerAtTop
    /\ sigq = <<>>
    /\ sortTimers = 0
    /\ is_running = TRUE
    /\ upstream = [u \in Usernames |-> NoApi]
    /\ now = 0
    /\ blacklist = <<>>
    /\ message_box = None
    /\ rpm = DefaultRpm
    /\ parse_input \in ParseInputs
    /\ parse_result = None
    /\ budget = 0

\* game_data = HiveAPI.parse_game_data(api_data)
ParseCall ==
    /\ parse_result = None
    /\ parse_result' = Some(parse_game_data(parse_input))
    /\ UNCHANGED <<trackers, obj, player_list, workers, poller, sigq,
                   sortTimers, is_running, upstream, now, settings,
                   parse_input, budget>>

NextParse == ParseCall

SpecParse == InitParse /\ [][NextParse]_vars

\* the two texts are the same but for the case of their letters
SameButCase(a, b) ==
    /\ Len(a) = Len(b)
    /\ \A i \in 1..Len(a) : lower(<<a[i]>>) = lower(<<b[i]>>)

\* the name, trimmed, is on the protected list or on the blacklist
Blocked(name) ==
    \/ \E i \in 1..Len(protected_blacklist) :
           SameButCase(strip(protected_blacklist[i]), strip(name))
    \/ \E i \in 1..Len(blacklist) : SameButCase(strip(blacklist[i]), strip(name))

\* C12: an add request whose name is blocked or already tracked changes
\* neither the trackers nor the list and starts no update; a request that
\* changes them has a name that is not empty, not blocked and not tracked,
\* and adds exactly that name.
C12_AddRejected ==
    [][\A text \in AddTexts :
           add_user(text) =>
               IF Blocked(text) \/ strip(text) \in TrackedNames \/ strip(text) = <<>>
               THEN UNCHANGED <<trackers, obj, player_list, workers>>
               ELSE /\ Len(trackers') = Len(trackers) + 1
                    /\ trackers'[Len(trackers')].username = strip(text)
                    /\ Len(player_list') = Len(player_list) + 1
                    /\ BagCardinality(workers') = BagCardinality(workers) + 1
      ]_vars

\* a name in another case than the blacklist's line was refused while
\* another spelling of it is tracked
C12_Witness ==
    /\ message_box = Some("Blacklisted")
    /\ blacklist # <<>>
    /\ Len(trackers) = 1
    /\ Len(player_list) = 1

\* the tracked usernames in the order they were added
TrackedOrder == [n \in 1..Len(trackers) |-> trackers[n].username]

\* the polling thread has been through the whole of a cycle
CycleDone ==
    \/ poller.pc = "visit" /\ poller.todo = <<>>
    \/ poller.pc = "top" /\ poller.visited # <<>>

\* C13: with the tracked set unchanged and the engine running, the updates
\* a cycle has called are those of the tracked usernames from the first on,
\* in the order added, each once; a finished cycle has called all of them;
\* every update that has returned was followed by one sleep, begun before
\* the next update was called.
C13_OneUpdateEachInOrder ==
    /\ Len(poller.visited) <= Len(TrackedOrder)
    /\ poller.visited = SubSeq(TrackedOrder, 1, Len(poller.visited))
    /\ CycleDone => poller.visited = TrackedOrder
    /\ poller.sleeps = IF poller.pc = "upd"
                       THEN Len(poller.visited) - 1
                       ELSE Len(poller.visited)

\* a cycle over three players, finished
C13_Witness ==
    /\ poller.pc = "visit"
    /\ poller.todo = <<>>
    /\ poller.visited = <<Alex, Bo, Cy>>
    /\ poller.sleeps = 3

\* C14: the sleep after an update is 60 / rpm seconds, half a second for
\* rpm = 120; a finished cycle over N players has slept N * 60 / rpm.
C14_SleepIsSixtyOverBudget ==
    poller.visited # <<>> =>
        /\ poller.interval * rpm = 60000
        /\ rpm = 120 => poller.interval = 500
        /\ CycleDone =>
               poller.sleeps * poller.interval * rpm >= Len(trackers) * 60000

\* budget 120 and three players: a second and a half slept in the cycle
C14_Witness ==
    /\ rpm = 120
    /\ Len(trackers) = 3
    /\ poller.pc = "top"
    /\ poller.sleeps * poller.interval = 1500

\* a thread running update is started
ThreadStarted == BagCardinality(workers') > BagCardinality(workers)

\* the polling thread's update does its fetch
PollFetches == PollFetch \/ PollFetchFail \/ PollFetchOdd

\* C15: once is_running is False no thread running update is started and
\* the polling loop does no fetch, not even in an iteration that had passed
\* its test of is_running before.
C15_NoFetchAfterStop ==
    [][(ThreadStarted \/ PollFetches) => is_running]_vars

\* C16: once is_running is False, the sleep the polling loop is inside of
\* is no longer than one rate-limit interval, with players tracked and with
\* none, and the loop calls no further update and begins no further sleep.
C16_StopsWithinOneInterval ==
    /\ [](~is_running =>
              (poller.pc \in {"sleep", "idle"} => poller.nap <= Interval(rpm)))
    /\ [][~is_running =>
              /\ poller'.pc = "upd" => poller.pc = "upd"
              /\ poller'.pc \in {"sleep", "idle"} => poller'.pc = poller.pc
         ]_vars

\* the polling thread is about to fetch the player of tracker tid
Fetching(tid) ==
    /\ poller.pc = "upd"
    /\ poller.upd.pc = "fetch"
    /\ poller.upd.tr = tid

\* the polling thread's update ends at its fetch: no response, or a body
\* that makes update raise
PollUpdateFails ==
    \/ PollFetchFail
    \/ PollFetchOdd /\ poller'.pc # "upd"

\* C17: an update of the polling loop that fails or raises leaves the loop
\* where a successful one does, asleep for the same interval with the same
\* players still to visit, and every tracked player is fetched again and
\* again whatever failed before.
C17_FailureDoesNotStopCycle ==
    /\ [][PollUpdateFails =>
              /\ poller'.pc = "sleep"
              /\ poller'.nap = Interval(rpm)
              /\ poller'.todo = poller.todo
         ]_vars
    /\ \A tid \in 1..MaxFairPlayers :
           []<>(tid \in DOMAIN obj => Fetching(tid))

\* a player whose fetch failed is about to be fetched again, others tracked
C17_Witness ==
    /\ Len(trackers) >= 2
    /\ poller.pc = "upd"
    /\ poller.upd.pc = "fetch"
    /\ obj[poller.upd.tr].error_message = API_ERROR

\* the value the response body holds for gamemode g is one of kinds
ModeValueIs(g, kinds) ==
    /\ parse_input.k = "dict"
    /\ g \in DOMAIN parse_input.v
    /\ parse_input.v[g].k \in kinds

\* C18: parse_game_data returns a snapshot without raising whatever JSON
\* value it is given, and a gamemode whose value is of a type it does not
\* recognise (a string, null) is absent from the snapshot
C18_ParseNeverRaises ==
    parse_result # None =>
        /\ ~parse_result[1].raised
        /\ \A g \in DOMAIN GAMEMODE_MAPPING :
               ModeValueIs(g, {"str", "null"})
                   => g \notin DOMAIN parse_result[1].data

\* the positions of the names of fields that record has
PresentAt(record, fields) ==
    {i \in 1..Len(fields) : fields[i] \in DOMAIN record}

\* the value record holds under the first of the names it has
FirstPresent(record, fields) ==
    LET first == CHOOSE i \in PresentAt(record, fields) :
                     \A j \in PresentAt(record, fields) : i <= j
    IN  record[fields[first]]

\* record has none of the names, or holds a number or null under the first
\* of them it has
CounterUnder(record, fields) ==
    PresentAt(record, fields) # {}
        => FirstPresent(record, fields).k \in {"num", "null"}

\* the counter read from record: 0 with none of the names, 0 for null
CounterOf(record, fields) ==
    IF PresentAt(record, fields) = {} THEN 0
    ELSE IF FirstPresent(record, fields).k = "null" THEN 0
    ELSE FirstPresent(record, fields).v

\* C19: for a gamemode whose value is a single record, games_played is the
\* value under the first present name of played, games_played, games,
\* total_games, matches, and victories the value under the first present name
\* of victories, wins, victories_count, win_count, total_wins; a present name
\* holding null gives 0 and ends the search, and no name present gives 0.
\* Each counter is stated on its own, whatever the record holds for the other
C19_FirstPresentFieldWins ==
    parse_result # None =>
        \A g \in DOMAIN GAMEMODE_MAPPING :
            ModeValueIs(g, {"dict"}) =>
                /\ g \in DOMAIN parse_result[1].data
                /\ CounterUnder(parse_input.v[g].v, PlayedFields)
                       => parse_result[1].data[g].games_played =
                              CounterOf(parse_input.v[g].v, PlayedFields)
                /\ CounterUnder(parse_input.v[g].v, VictoryFields)
                       => parse_result[1].data[g].victories =
                              CounterOf(parse_input.v[g].v, VictoryFields)

\* C19, as the code has it: the two counters are read as stated when the
\* values under the first present names are numbers or null for both; when
\* either is a value int() rejects, both counters are 0
C19_FirstPresentFieldWinsUnlessMalformed ==
    parse_result # None =>
        \A g \in DOMAIN GAMEMODE_MAPPING :
            ModeValueIs(g, {"dict"}) =>
                /\ g \in DOMAIN parse_result[1].data
                /\ parse_result[1].data[g] =
                       IF /\ CounterUnder(parse_input.v[g].v, PlayedFields)
                          /\ CounterUnder(parse_input.v[g].v, VictoryFields)
                       THEN GameData(
                                CounterOf(parse_input.v[g].v, PlayedFields),
                                CounterOf(parse_input.v[g].v, VictoryFields))
                       ELSE GameData(0, 0)

\* a record with played null, games_played 2 and wins 1 was parsed: the null
\* ended the search for games_played
C19_Witness ==
    /\ parse_input = JDict("bed" :> JDict(("played" :> JNull)
                                          @@ ("games_played" :> JNum(2))
                                          @@ ("wins" :> JNum(1))))
    /\ parse_result = Some([raised |-> FALSE,
                            data |-> ("bed" :> GameData(0, 1)),
                            order |-> <<"bed">>])

\* the played-like field of record is greater than zero
HasPlayed(record) ==
    LET like == <<"played", "games_played", "games">>
    IN  /\ PresentAt(record, like) # {}
        /\ FirstPresent(record, like).k = "num"
        /\ FirstPresent(record, like).v > 0

\* the positions of the records of items whose played-like field is
\* greater than zero
Qualifying(items) ==
    {i \in 1..Len(items) : items[i].k = "dict" /\ HasPlayed(items[i].v)}

\* the counters parse_game_data gives for gamemode g when record alone is
\* its value
AloneAs(g, record) == parse_game_data(JDict(g :> record)).data[g]

\* C20: for a gamemode whose value is a sequence of records, the counters
\* are those of the first record whose played-like field (played, then
\* games_played, then games) is greater than zero, the same as if that
\* record had been supplied alone (victories by the five-name order); with
\* no such record the gamemode is present with games_played 0, victories 0
C20_ListResolvesToFirstPlayedRecord ==
    parse_result # None =>
        \A g \in DOMAIN GAMEMODE_MAPPING :
            (/\ ModeValueIs(g, {"list"})
             /\ \A i \in 1..Len(parse_input.v[g].v) :
                    parse_input.v[g].v[i].k = "dict")
            => LET items == parse_input.v[g].v
                   first == CHOOSE i \in Qualifying(items) :
                                \A j \in Qualifying(items) : i <= j
               IN  /\ g \in DOMAIN parse_result[1].data
                   /\ parse_result[1].data[g] =
                          IF Qualifying(items) = {} THEN GameData(0, 0)
                          ELSE AloneAs(g, items[first])

\* the step is one of update t after its fetch: an iteration of its loop,
\* or its commit
DiffOrCommitStep(t) ==
    \/ t \in BagToSet(workers) /\ (WorkerDiff(t) \/ WorkerCommit(t))
    \/ poller.pc = "upd" /\ t = poller.upd /\ (PollDiff \/ PollCommit)

\* C21: with updates of a player one at a time, an update that fetched the
\* snapshot that is its baseline emits nothing, leaves the tracker's last
\* activity and the list items (their colour and last activity) as they
\* were, and leaves that snapshot the baseline
C21_SameSnapshotNoEvents ==
    [][\A t \in RunningUpdates :
           (t.pc = "diff" /\ t.cur = t.base /\ DiffOrCommitStep(t)) =>
               /\ sigq' = sigq
               /\ player_list' = player_list
               /\ t.tr \in DOMAIN obj' =>
                      /\ obj'[t.tr].last_activity = obj[t.tr].last_activity
                      /\ obj'[t.tr].previous_data = t.base
      ]_vars

\* a player with a recorded activity polled again with nothing played since:
\* the update is through its loop and has emitted nothing
C21_Witness ==
    \E t \in RunningUpdates :
        /\ AtCommit(t)
        /\ t.cur = t.base
        /\ \E g \in DOMAIN t.cur : t.cur[g].games_played > 0
        /\ obj[t.tr].last_activity # None
        /\ t.out = <<>>

\* the gamemodes update t has found more games in than its baseline has, in
\* the order of GAMEMODE_MAPPING
Advanced(t) ==
    SelectSeq(GamemodeKeys,
              LAMBDA g : /\ g \in Handled(t) \cap DOMAIN t.base
                         /\ t.cur[g].games_played > t.base[g].games_played)

\* C22: the activity signals of an update come in the order GAMEMODE_MAPPING
\* lists their gamemodes, whatever the order of the keys in the response
\* body; when the update is through its loop the tracker's last activity is
\* the last of them, and so is the list item's once they are all delivered
C22_EventsInMappingOrder ==
    /\ \A t \in RunningUpdates :
           t.pc = "diff" =>
               /\ Len(t.out) = Len(Advanced(t))
               /\ \A n \in 1..Len(t.out) :
                      /\ t.out[n].kind = "activity"
                      /\ t.out[n].gamemode = GAMEMODE_MAPPING[Advanced(t)[n]]
               /\ (AtCommit(t) /\ Advanced(t) # <<>>) =>
                      obj[t.tr].last_activity[1].gamemode =
                          GAMEMODE_MAPPING[Advanced(t)[Len(Advanced(t))]]
    /\ \A n \in 1..Len(player_list) :
           (/\ Quiet(player_list[n])
            /\ obj[player_list[n].tracker].last_activity # None)
           => player_list[n].last_gamemode =
                  obj[player_list[n].tracker].last_activity[1].gamemode

\* a poll found a match played in each of the two gamemodes, the body naming
\* the last gamemode of GAMEMODE_MAPPING first
C22_Witness ==
    \E t \in RunningUpdates :
        /\ AtCommit(t)
        /\ t.bodyKeys = <<"bed", "sky">>
        /\ Len(t.out) = 2
        /\ t.out[1].gamemode = GAMEMODE_MAPPING["sky"]
        /\ t.out[2].gamemode = GAMEMODE_MAPPING["bed"]
        /\ obj[t.tr].last_activity[1].gamemode = GAMEMODE_MAPPING["bed"]

\* C23: every rate-limit sleep of the polling loop, when it begins, is as
\* long as 60 / rpm for the value the spin box has then: a change of the
\* spin box applies to the next sleep
C23_SleepFollowsSpinBox ==
    [][(poller.pc # "sleep" /\ poller'.pc = "sleep")
           => poller'.nap = Interval(rpm)]_vars

\* C24: whatever was added, removed and typed into the blacklist dialog, no
\* tracked username is one is_blacklisted blocks
C24_NoTrackedNameBlocked ==
    \A u \in TrackedNames : ~is_blacklisted(u)

\* the polling loop calls update() of the next tracker of its list
PollCallsUpdate == poller.pc = "visit" /\ poller'.pc = "upd"

\* C25: the polling loop calls update() only for a username that is
\* tracked: after remove_user it starts no fetch for the removed player,
\* also in a cycle whose list of trackers was taken before the removal
C25_NoPollAfterRemove ==
    [][PollCallsUpdate => obj[poller'.upd.tr].username \in TrackedNames]_vars

\* C26: a slot applies a signal only to the list item of the tracker that
\* emitted it: what a removed tracker emits does not change the item of a
\* player added later under the same username
C26_SignalReachesOwnItemOnly ==
    [][(on_activity_detected \/ on_error_occurred) =>
           LET n == FirstItem(player_list, Head(sigq).username)
           IN  (n # 0 /\ player_list'[n] # player_list[n])
                   => player_list[n].tracker = Head(sigq).from
      ]_vars

\* the activity signals emitted for username and gamemode g, none of them
\* delivered yet
QueuedEvents(username, g) ==
    SelectSeq(sigq, LAMBDA e : /\ e.kind = "activity"
                               /\ e.username = username
                               /\ e.gamemode = GAMEMODE_MAPPING[g])

\* C27: with counters that only grow, the activity signals emitted for a
\* player and gamemode are never more than the matches played in it since
\* the baseline was set, however the polling loop's and the manual updates
\* interleave
C27_NoMoreEventsThanMatches ==
    \A n \in 1..Len(trackers), g \in DOMAIN GAMEMODE_MAPPING :
        Len(QueuedEvents(trackers[n].username, g))
            <= upstream[trackers[n].username][g].played
                   - OrderBaseline[g].games_played

\* the polling thread is about to fetch the player username
PollFetching(username) ==
    /\ poller.pc = "upd"
    /\ poller.upd.pc = "fetch"
    /\ obj[poller.upd.tr].username = username

\* C28: with the engine running and every request ending, a player that
\* stays tracked is fetched by the polling loop again and again, whatever
\* players are added and removed and whichever fetches fail
C28_TrackedPlayerIsPolledForever ==
    \A u \in Usernames :
        <>[](u \in TrackedNames) => []<>PollFetching(u)

\* the polling loop is about to fetch the first player again after a second
\* one was added and the first one's fetch had failed
C28_Witness ==
    /\ Len(trackers) = 2
    /\ PollFetching(Alex)
    /\ obj[poller.upd.tr].error_message = API_ERROR
    /\ \E n \in 1..Len(player_list) :
           player_list[n].username = Bo /\ player_list[n].error_message = API_ERROR

\* the list item of username
ItemOf(items, username) == items[FirstItem(items, username)]

\* the step is one of the update the polling thread is inside of
PollUpdateStep ==
    poller.pc = "upd" /\ (PollFetch \/ PollFetchFail \/ PollDiff \/ PollCommit)

\* C29: a step of a player's update leaves every other tracker (baseline,
\* last activity, error) and every list item as they were; the slot that
\* delivers a player's activity or error signal leaves every tracker and
\* every other player's item (last activity, colour, colour change time,
\* error) as they were; the re-sort leaves every tracker and every player's
\* item as they were and changes only the order of the list
C29_OtherPlayersUntouched ==
    [][/\ PollUpdateStep =>
              /\ player_list' = player_list
              /\ \A tid \in DOMAIN obj \ {poller.upd.tr} :
                     tid \in DOMAIN obj' /\ obj'[tid] = obj[tid]
       /\ (on_activity_detected \/ on_error_occurred) =>
              /\ obj' = obj
              /\ Len(player_list') = Len(player_list)
              /\ \A n \in 1..Len(player_list) :
                     player_list[n].username # Head(sigq).username
                         => player_list'[n] = player_list[n]
       /\ sort_player_list =>
              /\ obj' = obj
              /\ Len(player_list') = Len(player_list)
              /\ \A n \in 1..Len(player_list) :
                     ItemOf(player_list', player_list[n].username) = player_list[n]
      ]_vars

\* both players have played, the second one later: the re-sort has put it on
\* top, and the first one, with its fetch error, below
C29_Witness ==
    /\ Len(player_list) = 2
    /\ sortTimers = 0
    /\ sigq = <<>>
    /\ player_list[1].username = Bo
    /\ player_list[2].username = Alex
    /\ player_list[1].last_activity_time # None
    /\ player_list[2].last_activity_time # None
    /\ player_list[2].error_message = API_ERROR

====
